---- MODULE Spec2Model ----
(***************************************************************************)
(* tytools: the Qt board Monitor (src/src/libtyqt/monitor.cc) and the      *)
(* command-line serial session loop (src/tyc/monitor.c).                   *)
(*                                                                         *)
(* Spec     : the Monitor driven by start(), stop(), backend hotplug       *)
(*            events pumped through refresh(), and Board signals.          *)
(* LoopSpec : one serial session, loop() of tyc monitor.                   *)
(* SettingsSpec : the Monitor's settings, loadSettings() and its setters.  *)
(* OptSpec  : the command line of tyc monitor, parsed by monitor().        *)
(***************************************************************************)
EXTENDS Integers, Sequences, FiniteSets, TLC

(***************************************************************************)
(* Bounds of the model.                                                    *)
(***************************************************************************)
NumBoards == 2      \* backend board identities (ty_board pointers)
MaxObjs == 2        \* Board objects ever constructed by handleAddedEvent
MaxQueue == 2       \* hotplug events waiting for the next refresh()
MaxClock == 400     \* milliseconds counted after the end of input
MaxTasks == 3       \* largest argument given to setMaxTasks()
MaxOpts == 3        \* options on one command line

VARIABLES
    \* ---- Monitor (monitor.cc) ----
    started_,           \* Monitor::started_
    monitor_,           \* Monitor::monitor_ is not null
    registered,         \* callbacks registered on the backend monitor
    connected,          \* connections notifier.activated -> refresh
    notifier_enabled,   \* monitor_notifier_ enabled
    serial_running,     \* serial_thread_ is running
    backend_started,    \* the backend monitor is started
    boards_,            \* Monitor::boards_: sequence of Board objects
    objBoard,           \* Board object -> its ty_board (Board::board())
    objDb,              \* Board object -> id of its scoped stores, 0 for none
    hw,                 \* physical state of each board identity
    bstate,             \* state of each ty_board as the backend applied it
    pending,            \* backend events not yet pumped by refresh()
    last,               \* the operation of the last step
    emitted,            \* notifications delivered during the last step
    \* ---- serial session loop (tyc/monitor.c) ----
    pc,                 \* position in loop()
    set,                \* tags in the ty_descriptor_set
    timeout,            \* the poll timeout
    result,             \* value returned by loop()
    reconnect,          \* static bool reconnect
    timeout_eof,        \* static int timeout_eof
    directions,         \* static int directions
    has_serial,         \* the board has TYB_BOARD_CAPABILITY_SERIAL
    calls,              \* calls made by the last step of loop(), with results
    eof_clock,          \* time since read() reported the end of input, -1 before
    \* ---- Monitor settings (monitor.cc) ----
    pool_max,           \* maximum thread count of pool_
    db_maxTasks,        \* value stored under "maxTasks" in db_
    db_serialByDefault, \* value stored under "serialByDefault" in db_
    default_serial_,    \* Monitor::default_serial_
    platform,           \* the platform the program was built for and runs on
    \* ---- command line of tyc monitor (tyc/monitor.c) ----
    terminal_flags,     \* static int terminal_flags, as a set of flags
    device_rate,        \* static uint32_t device_rate
    device_flags,       \* static int device_flags, one field per mask
    opt_last,           \* the option handled by the last step, with optarg
    opt_count           \* options handled so far

monVars == <<started_, monitor_, registered, connected, notifier_enabled,
             serial_running, backend_started, boards_, objBoard, objDb, hw,
             bstate, pending, last, emitted>>
loopVars == <<pc, set, timeout, result, reconnect, timeout_eof, directions,
              has_serial, calls, eof_clock>>
setVars == <<pool_max, db_maxTasks, db_serialByDefault, default_serial_, platform>>
optVars == <<terminal_flags, device_rate, device_flags, opt_last, opt_count>>
vars == <<monVars, loopVars, setVars, optVars>>

(***************************************************************************)
(* Backend boards and their lifecycle (spec 4.3).                          *)
(***************************************************************************)
Idents == 1..NumBoards
Events == {"ADDED", "CHANGED", "DISAPPEARED", "DROPPED"}

\* the state a ty_board is in once the backend applied an event
StateAfter(event) ==
    CASE event = "ADDED" -> "ONLINE"
      [] event = "CHANGED" -> "ONLINE"
      [] event = "DISAPPEARED" -> "MISSING"
      [] event = "DROPPED" -> "DROPPED"

\* the transitions the backend can report for a board in state st:
\* NEW -> ADDED -> (CHANGED)* -> {DISAPPEARED | DROPPED},
\* DISAPPEARED -> (ADDED-again | DROPPED-after-grace)
AllowedEvents(st) ==
    CASE st = "NEW" -> {"ADDED"}
      [] st = "ONLINE" -> {"CHANGED", "DISAPPEARED", "DROPPED"}
      [] st = "MISSING" -> {"ADDED", "CHANGED", "DROPPED"}
      [] st = "DROPPED" -> {"ADDED"}

(***************************************************************************)
(* Notifications seen by observers.  Rows are 0-based, as in Qt.            *)
(***************************************************************************)
Note(kind, a, b) == [kind |-> kind, a |-> a, b |-> b]
RowsInserted(first, lst) == Note("rowsInserted", first, lst)
RowsRemoved(first, lst) == Note("rowsRemoved", first, lst)
DataChanged(row) == Note("dataChanged", row, row)
BoardAdded(obj) == Note("boardAdded", obj, 0)
BoardChanged(obj) == Note("changed", obj, 0)
BoardDropped(obj) == Note("dropped", obj, 0)

Op(op, board, event, ret) == [op |-> op, board |-> board, event |-> event, ret |-> ret]

(***************************************************************************)
(* Monitor: the collection.  An iterator is a 1-based position,            *)
(* Len(bs) + 1 is boards_.end().                                           *)
(***************************************************************************)
RemoveAt(s, i) == SubSeq(s, 1, i - 1) \o SubSeq(s, i + 1, Len(s))

findBoardIterator(bs, objs, board) ==
    IF \E i \in 1..Len(bs) : objs[bs[i]] = board
    THEN CHOOSE i \in 1..Len(bs) :
            /\ objs[bs[i]] = board
            /\ \A j \in 1..(i - 1) : objs[bs[j]] # board
    ELSE Len(bs) + 1

\* removeBoardItem erasing the first row whatever the iterator
removeBoardItem_first(bs, it) ==
    [boards |-> Tail(bs), notes |-> <<RowsRemoved(it - 1, it - 1)>>]

refreshBoardItem(bs, it) ==
    [boards |-> bs, notes |-> <<DataChanged(it - 1)>>]

removeBoardItem(bs, it) ==
    [boards |-> RemoveAt(bs, it), notes |-> <<RowsRemoved(it - 1, it - 1)>>]

\* the slots handleAddedEvent connects to a Board's signals
onBoardChanged(bs, objs, obj) ==
    refreshBoardItem(bs, findBoardIterator(bs, objs, objs[obj]))

onBoardDropped(bs, objs, obj) ==
    removeBoardItem(bs, findBoardIterator(bs, objs, objs[obj]))

\* Board::refreshBoard: a dropped ty_board makes the Board emit dropped,
\* any other state makes it emit its change signals
refreshBoard(bs, objs, st, obj) ==
    IF st[objs[obj]] = "DROPPED"
    THEN LET r == onBoardDropped(bs, objs, obj)
         IN [boards |-> r.boards, objs |-> objs,
             notes |-> <<BoardDropped(obj)>> \o r.notes]
    ELSE LET r == onBoardChanged(bs, objs, obj)
         IN [boards |-> r.boards, objs |-> objs,
             notes |-> <<BoardChanged(obj)>> \o r.notes]

\* the capabilities of a ty_board: boards of both kinds exist, with and
\* without TY_BOARD_CAPABILITY_UNIQUE (a serial number to tell them apart)
capabilities(board) == IF board % 2 = 1 THEN {"UNIQUE"} ELSE {}

\* handleAddedEvent giving every new Board scoped stores
subDatabase_always(caps, id) == id

\* handleAddedEvent: the stores given to the new Board of the ty_board id
\* with capabilities caps, db_.subDatabase(id) and cache_.subDatabase(id)
subDatabase(caps, id) == IF "UNIQUE" \in caps THEN id ELSE 0

\* handleAddedEvent inserting the new Board in front of the others
handleAddedEvent_front(bs, objs, board) ==
    LET ptr == Len(objs) + 1
    IN [boards |-> <<ptr>> \o bs,
        objs |-> Append(objs, board),
        notes |-> <<RowsInserted(0, 0), BoardAdded(ptr)>>]

handleAddedEvent(bs, objs, board) ==
    LET ptr == Len(objs) + 1
    IN [boards |-> Append(bs, ptr),
        objs |-> Append(objs, board),
        notes |-> <<RowsInserted(Len(bs), Len(bs)), BoardAdded(ptr)>>]

\* handleChangedEvent putting a newly made Board in the place of the old one
handleChangedEvent_replace(bs, objs, st, board) ==
    LET it == findBoardIterator(bs, objs, board)
        ptr == Len(objs) + 1
    IN IF it = Len(bs) + 1
       THEN [boards |-> bs, objs |-> objs, notes |-> <<>>]
       ELSE IF st[board] = "DROPPED"
       THEN refreshBoard(bs, objs, st, bs[it])
       ELSE [boards |-> [bs EXCEPT ![it] = ptr],
             objs |-> Append(objs, board),
             notes |-> <<BoardChanged(ptr), DataChanged(it - 1)>>]

handleChangedEvent(bs, objs, st, board) ==
    LET it == findBoardIterator(bs, objs, board)
    IN IF it = Len(bs) + 1
       THEN [boards |-> bs, objs |-> objs, notes |-> <<>>]
       ELSE refreshBoard(bs, objs, st, bs[it])

\* handleEvent with no case for TY_MONITOR_EVENT_DISAPPEARED
handleEvent_noDisappeared(bs, objs, st, board, event) ==
    CASE event = "ADDED" -> handleAddedEvent(bs, objs, board)
      [] event \in {"CHANGED", "DROPPED"} ->
            handleChangedEvent(bs, objs, st, board)
      [] OTHER -> [boards |-> bs, objs |-> objs, notes |-> <<>>]

handleEvent(bs, objs, st, board, event) ==
    CASE event = "ADDED" -> handleAddedEvent(bs, objs, board)
      [] event \in {"CHANGED", "DISAPPEARED", "DROPPED"} ->
            handleChangedEvent(bs, objs, st, board)

(***************************************************************************)
(* Monitor: start() and stop().                                            *)
(***************************************************************************)
StartOutcomes == {"ok", "new_fails", "register_fails", "start_fails"}

\* start() registering the callback and connecting the notifier each time
start_reregisters(f) ==
    IF started_
    THEN /\ f = "ok"
         /\ last' = Op("start", 0, "already_started", TRUE)
         /\ UNCHANGED <<started_, monitor_, registered, connected,
                        notifier_enabled, serial_running, backend_started>>
    ELSE IF ~monitor_ /\ f \in {"new_fails", "register_fails"}
    THEN /\ last' = Op("start", 0, f, FALSE)
         /\ UNCHANGED <<started_, monitor_, registered, connected,
                        notifier_enabled, serial_running, backend_started>>
    ELSE /\ f \in {"ok", "start_fails"}
         /\ monitor_' = TRUE
         /\ registered' = IF registered < 2 THEN registered + 1 ELSE registered
         /\ connected' = IF connected < 2 THEN connected + 1 ELSE connected
         /\ serial_running' = TRUE
         /\ IF f = "start_fails"
            THEN /\ last' = Op("start", 0, f, FALSE)
                 /\ UNCHANGED <<started_, notifier_enabled, backend_started>>
            ELSE /\ backend_started' = TRUE
                 /\ notifier_enabled' = TRUE
                 /\ started_' = TRUE
                 /\ last' = Op("start", 0, f, TRUE)

\* start() without the early return of a started Monitor
start_noguard(f) ==
    IF ~monitor_ /\ f \in {"new_fails", "register_fails"}
    THEN /\ last' = Op("start", 0, f, FALSE)
         /\ UNCHANGED <<started_, monitor_, registered, connected,
                        notifier_enabled, serial_running, backend_started>>
    ELSE /\ f \in {"ok", "start_fails"}
         /\ monitor_' = TRUE
         /\ registered' = IF monitor_ THEN registered ELSE registered + 1
         /\ connected' = IF monitor_ THEN connected ELSE connected + 1
         /\ serial_running' = TRUE
         /\ IF f = "start_fails"
            THEN /\ last' = Op("start", 0, f, FALSE)
                 /\ UNCHANGED <<started_, notifier_enabled, backend_started>>
            ELSE /\ backend_started' = TRUE
                 /\ notifier_enabled' = TRUE
                 /\ started_' = TRUE
                 /\ last' = Op("start", 0, f, TRUE)

\* Monitor::start(); f is what the backend calls answer
start(f) ==
    IF started_
    THEN /\ f = "ok"
         /\ last' = Op("start", 0, "already_started", TRUE)
         /\ UNCHANGED <<started_, monitor_, registered, connected,
                        notifier_enabled, serial_running, backend_started>>
    ELSE IF ~monitor_ /\ f \in {"new_fails", "register_fails"}
    THEN /\ last' = Op("start", 0, f, FALSE)
         /\ UNCHANGED <<started_, monitor_, registered, connected,
                        notifier_enabled, serial_running, backend_started>>
    ELSE /\ f \in {"ok", "start_fails"}
         /\ monitor_' = TRUE
         /\ registered' = IF monitor_ THEN registered ELSE registered + 1
         /\ connected' = IF monitor_ THEN connected ELSE connected + 1
         /\ serial_running' = TRUE
         /\ IF f = "start_fails"
            THEN /\ last' = Op("start", 0, f, FALSE)
                 /\ UNCHANGED <<started_, notifier_enabled, backend_started>>
            ELSE /\ backend_started' = TRUE
                 /\ notifier_enabled' = TRUE
                 /\ started_' = TRUE
                 /\ last' = Op("start", 0, f, TRUE)

Start ==
    /\ \E f \in StartOutcomes : start(f)
    /\ emitted' = <<>>
    /\ UNCHANGED <<boards_, objBoard, objDb, hw, bstate, pending>>
    /\ UNCHANGED <<loopVars, setVars, optVars>>

\* stop() clearing the collection without telling the model's observers
stop_silent ==
    IF ~started_
    THEN /\ emitted' = <<>>
         /\ UNCHANGED <<started_, notifier_enabled, serial_running,
                        backend_started, boards_>>
    ELSE /\ serial_running' = FALSE
         /\ emitted' = <<>>
         /\ boards_' = <<>>
         /\ notifier_enabled' = FALSE
         /\ backend_started' = FALSE
         /\ started_' = FALSE

\* Monitor::stop()
stop ==
    IF ~started_
    THEN /\ emitted' = <<>>
         /\ UNCHANGED <<started_, notifier_enabled, serial_running,
                        backend_started, boards_>>
    ELSE /\ serial_running' = FALSE
         /\ IF boards_ # <<>>
            THEN /\ emitted' = <<RowsRemoved(0, Len(boards_))>>
                 /\ boards_' = <<>>
            ELSE /\ emitted' = <<>>
                 /\ UNCHANGED boards_
         /\ notifier_enabled' = FALSE
         /\ backend_started' = FALSE
         /\ started_' = FALSE

Stop ==
    /\ stop
    /\ last' = Op("stop", 0, "none", TRUE)
    /\ UNCHANGED <<monitor_, registered, connected, objBoard, objDb, hw, bstate,
                   pending>>
    /\ UNCHANGED <<loopVars, setVars, optVars>>

(***************************************************************************)
(* Monitor: events.                                                        *)
(***************************************************************************)
PendingAdded == Cardinality({i \in 1..Len(pending) : pending[i].event = "ADDED"})

\* the device tree changes: the backend has an event to report
Hotplug ==
    /\ Len(pending) < MaxQueue
    /\ \E board \in Idents : \E event \in AllowedEvents(hw[board]) :
        /\ event = "ADDED" => Len(objBoard) + PendingAdded < MaxObjs
        /\ hw' = [hw EXCEPT ![board] = StateAfter(event)]
        /\ pending' = Append(pending, [board |-> board, event |-> event])
        /\ last' = Op("hotplug", 0, "none", TRUE)
    /\ emitted' = <<>>
    /\ UNCHANGED <<started_, monitor_, registered, connected, notifier_enabled,
                   serial_running, backend_started, boards_, objBoard, objDb,
                   bstate>>
    /\ UNCHANGED <<loopVars, setVars, optVars>>

\* Monitor::refresh(): the notifier fired, ty_monitor_refresh applies the
\* next transition and calls handleEvent once for each registered callback
Refresh ==
    /\ notifier_enabled /\ monitor_ /\ connected > 0 /\ registered > 0
    /\ pending # <<>>
    /\ LET ev == Head(pending)
           st == [bstate EXCEPT ![ev.board] = StateAfter(ev.event)]
           r == handleEvent(boards_, objBoard, st, ev.board, ev.event)
       IN /\ pending' = Tail(pending)
          /\ bstate' = st
          /\ boards_' = r.boards
          /\ objBoard' = r.objs
          /\ objDb' = IF ev.event = "ADDED"
                      THEN Append(objDb, subDatabase(capabilities(ev.board), ev.board))
                      ELSE objDb
          /\ emitted' = r.notes
          /\ last' = Op("event", ev.board, ev.event, TRUE)
    /\ UNCHANGED <<started_, monitor_, registered, connected, notifier_enabled,
                   serial_running, backend_started, hw>>
    /\ UNCHANGED <<loopVars, setVars, optVars>>

\* a Board object emits infoChanged, interfacesChanged, statusChanged or
\* progressChanged (a tag was set, a task made progress)
BoardSignal ==
    /\ \E obj \in 1..Len(objBoard) :
        LET r == onBoardChanged(boards_, objBoard, obj)
        IN /\ boards_' = r.boards
           /\ emitted' = r.notes
           /\ last' = Op("signal", 0, "none", TRUE)
    /\ UNCHANGED <<started_, monitor_, registered, connected, notifier_enabled,
                   serial_running, backend_started, objBoard, objDb, hw, bstate,
                   pending>>
    /\ UNCHANGED <<loopVars, setVars, optVars>>

MonitorInit ==
    /\ started_ = FALSE
    /\ monitor_ = FALSE
    /\ registered = 0
    /\ connected = 0
    /\ notifier_enabled = FALSE
    /\ serial_running = FALSE
    /\ backend_started = FALSE
    /\ boards_ = <<>>
    /\ objBoard = <<>>
    /\ objDb = <<>>
    /\ hw = [i \in Idents |-> "NEW"]
    /\ bstate = [i \in Idents |-> "NEW"]
    /\ pending = <<>>
    /\ last = Op("init", 0, "none", TRUE)
    /\ emitted = <<>>

LoopIdle ==
    /\ pc = "idle"
    /\ set = {}
    /\ timeout = -1
    /\ result = "none"
    /\ reconnect = FALSE
    /\ timeout_eof = 200
    /\ directions = 3
    /\ has_serial = TRUE
    /\ calls = <<>>
    /\ eof_clock = -1

\* a QVariant that holds nothing: the value of a key that is not stored
Invalid == [kind |-> "invalid"]

\* the Monitor as constructed without stored settings, not on Windows
SettingsIdle ==
    /\ pool_max = 4
    /\ db_maxTasks = Invalid
    /\ db_serialByDefault = Invalid
    /\ default_serial_ = TRUE
    /\ platform = "other"

\* the static variables of tyc monitor before any option is parsed
NoFlags == [csize |-> "0", flow |-> "0", parity |-> "0", nohup |-> FALSE]
NoOpt == [opt |-> "none", optarg |-> <<>>]
OptIdle ==
    /\ terminal_flags = {}
    /\ device_rate = 115200
    /\ device_flags = NoFlags
    /\ opt_last = NoOpt
    /\ opt_count = 0

Init == MonitorInit /\ LoopIdle /\ SettingsIdle /\ OptIdle

Next == Start \/ Stop \/ Hotplug \/ Refresh \/ BoardSignal

Spec == Init /\ [][Next]_vars

(***************************************************************************)
(* The serial session loop: loop() of tyc monitor.                         *)
(***************************************************************************)
DIRECTION_INPUT == 1
DIRECTION_OUTPUT == 2
ERROR_IO_TIMEOUT == 5000

\* directions & flag
HasFlag(x, flag) == (x \div flag) % 2 = 1

\* results of the library calls; every error is a negative value
Errors == {"TY_ERROR_IO", "TY_ERROR_SYSTEM"}
Call(fn, ret) == [fn |-> fn, ret |-> ret]
TagName(t) == CASE t = 1 -> "1" [] t = 2 -> "2" [] t = 3 -> "3"

\* what a step of loop() leaves behind: where it goes on, the wait set, the
\* poll timeout, the value returned when it ends, the calls it made
Step(p, s, t, res, cs) == [pc |-> p, set |-> s, timeout |-> t, result |-> res, calls |-> cs]

fill_descriptor_set(dirs) ==
    {1} \cup (IF HasFlag(dirs, DIRECTION_INPUT) THEN {2} ELSE {})
        \cup (IF HasFlag(dirs, DIRECTION_OUTPUT) THEN {3} ELSE {})

\* restart leaving the poll timeout as it was
loopRestart_keepsTimeout(s, t, dirs, r) ==
    LET cs == <<Call("serial_set_attributes", r)>>
    IN IF r \in Errors
       THEN Step("done", s, t, r, cs)
       ELSE Step("poll", fill_descriptor_set(dirs), t, "none", cs)

\* restart: r is the result of tyb_board_serial_set_attributes
loopRestart(s, t, dirs, r) ==
    LET cs == <<Call("serial_set_attributes", r)>>
    IN IF r \in Errors
       THEN Step("done", s, t, r, cs)
       ELSE Step("poll", fill_descriptor_set(dirs), -1, "none", cs)

\* the loop polling an empty set until the timeout elapses
loopEmpty_polls(s, t) == Step("done", s, t, "0", <<Call("ty_poll", "0")>>)

\* if (!set.count) return 0;
loopEmpty(s, t) == Step("done", s, t, "0", <<>>)

\* ty_poll failed with error r
loopPollError(s, t, r) == Step("done", s, t, r, <<Call("ty_poll", r)>>)

\* case 0
loopTimeout(s, t) == Step("done", s, t, "0", <<Call("ty_poll", "0")>>)

\* case 1 waiting for the device whatever the reconnect flag
loopMonitor_alwaysWaits(s, t, rc, r, has) ==
    LET cs == <<Call("ty_poll", "1"), Call("monitor_refresh", r)>>
    IN IF r \in Errors THEN Step("done", s, t, r, cs)
       ELSE IF ~has THEN Step("wait_for", s, t, "none", cs)
       ELSE Step("poll", s, t, "none", cs)

\* case 1: r is the result of tyb_monitor_refresh, has the capability after it
loopMonitor(s, t, rc, r, has) ==
    LET cs == <<Call("ty_poll", "1"), Call("monitor_refresh", r)>>
    IN IF r \in Errors THEN Step("done", s, t, r, cs)
       ELSE IF ~has
            THEN IF ~rc THEN Step("done", s, t, "0", cs)
                 ELSE Step("wait_for", s, t, "none", cs)
            ELSE Step("poll", s, t, "none", cs)

\* the third argument loop() passes to tyb_board_wait_for
WaitForArgument == FALSE

\* after "Waiting for device...": r is the result of tyb_board_wait_for
loopWaitFor(s, t, r) ==
    LET cs == <<Call("wait_for", r)>>
    IN IF r \in Errors THEN Step("done", s, t, r, cs)
       ELSE Step("restart", s, t, "none", cs)

\* case 2 going on after a failed write to the output
loopSerial_ignoresWrite(s, t, rc, rd, wr) ==
    LET cs == <<Call("ty_poll", "2"), Call("serial_read", rd)>>
    IN IF rd \in Errors
       THEN IF rd = "TY_ERROR_IO" /\ rc
            THEN Step("poll", (s \ {2}) \ {3}, ERROR_IO_TIMEOUT, "none", cs)
            ELSE Step("done", s, t, rd, cs)
       ELSE Step("poll", s, t, "none", Append(cs, Call("write", wr)))

\* case 2 applying the reconnect policy whatever the reconnect flag
loopSerial_alwaysReconnect(s, t, rc, rd, wr) ==
    LET cs == <<Call("ty_poll", "2"), Call("serial_read", rd)>>
    IN IF rd \in Errors
       THEN IF rd = "TY_ERROR_IO"
            THEN Step("poll", (s \ {2}) \ {3}, ERROR_IO_TIMEOUT, "none", cs)
            ELSE Step("done", s, t, rd, cs)
       ELSE IF wr = "fail"
            THEN Step("done", s, t, "TY_ERROR_IO", Append(cs, Call("write", wr)))
            ELSE Step("poll", s, t, "none", Append(cs, Call("write", wr)))

\* case 2: rd is the result of tyb_board_serial_read, wr of write(outfd)
loopSerial(s, t, rc, rd, wr) ==
    LET cs == <<Call("ty_poll", "2"), Call("serial_read", rd)>>
    IN IF rd \in Errors
       THEN IF rd = "TY_ERROR_IO" /\ rc
            THEN Step("poll", (s \ {2}) \ {3}, ERROR_IO_TIMEOUT, "none", cs)
            ELSE Step("done", s, t, rd, cs)
       ELSE IF wr = "fail"
            THEN Step("done", s, t, "TY_ERROR_IO", Append(cs, Call("write", wr)))
            ELSE Step("poll", s, t, "none", Append(cs, Call("write", wr)))

\* case 3 keeping the input descriptor after a serial write I/O error
loopInput_keepsInput(s, t, rc, eof, rd, wr) ==
    LET cs == <<Call("ty_poll", "3"), Call("read", rd)>>
    IN IF rd = "fail" THEN Step("done", s, t, "TY_ERROR_IO", cs)
       ELSE IF rd = "eof"
            THEN IF eof >= 0
                 THEN Step("poll", (s \ {1}) \ {3}, eof, "none", cs)
                 ELSE Step("poll", s, t, "none", cs)
       ELSE IF wr \in Errors
            THEN IF wr = "TY_ERROR_IO" /\ rc
                 THEN Step("poll", s \ {2}, ERROR_IO_TIMEOUT, "none",
                           Append(cs, Call("serial_write", wr)))
                 ELSE Step("done", s, t, wr, Append(cs, Call("serial_write", wr)))
       ELSE Step("poll", s, t, "none", Append(cs, Call("serial_write", wr)))

\* case 3 returning 0 at the end of input when timeout_eof is negative
loopInput_exitsOnEof(s, t, rc, eof, rd, wr) ==
    LET cs == <<Call("ty_poll", "3"), Call("read", rd)>>
    IN IF rd = "fail" THEN Step("done", s, t, "TY_ERROR_IO", cs)
       ELSE IF rd = "eof"
            THEN IF eof >= 0
                 THEN Step("poll", (s \ {1}) \ {3}, eof, "none", cs)
                 ELSE Step("done", s, t, "0", cs)
       ELSE IF wr \in Errors
            THEN IF wr = "TY_ERROR_IO" /\ rc
                 THEN Step("poll", (s \ {2}) \ {3}, ERROR_IO_TIMEOUT, "none",
                           Append(cs, Call("serial_write", wr)))
                 ELSE Step("done", s, t, wr, Append(cs, Call("serial_write", wr)))
       ELSE Step("poll", s, t, "none", Append(cs, Call("serial_write", wr)))

\* case 3: rd is the result of read(STDIN_FILENO), wr of tyb_board_serial_write
loopInput(s, t, rc, eof, rd, wr) ==
    LET cs == <<Call("ty_poll", "3"), Call("read", rd)>>
    IN IF rd = "fail" THEN Step("done", s, t, "TY_ERROR_IO", cs)
       ELSE IF rd = "eof"
            THEN IF eof >= 0
                 THEN Step("poll", (s \ {1}) \ {3}, eof, "none", cs)
                 ELSE Step("poll", s, t, "none", cs)
       ELSE IF wr \in Errors
            THEN IF wr = "TY_ERROR_IO" /\ rc
                 THEN Step("poll", (s \ {2}) \ {3}, ERROR_IO_TIMEOUT, "none",
                           Append(cs, Call("serial_write", wr)))
                 ELSE Step("done", s, t, wr, Append(cs, Call("serial_write", wr)))
       ELSE Step("poll", s, t, "none", Append(cs, Call("serial_write", wr)))

\* tyb_board_serial_set_attributes on a board: the capability gate fails
\* without the serial capability
SetAttributesOutcomes(has) == IF has THEN {"ok"} \cup Errors ELSE Errors

\* tyb_board_wait_for returns once the presence of the capability is want
WaitForOutcomes(want) == {[ret |-> "ok", has |-> want]} \cup
                         {[ret |-> e, has |-> h] : e \in Errors, h \in BOOLEAN}

\* ty_poll returns a ready descriptor before the timeout t has elapsed
ReadyWaits(t) == IF t <= 0 THEN {0} ELSE {0, t \div 2}

Made(cs, fn, ret) == \E k \in 1..Len(cs) : cs[k] = Call(fn, ret)

\* the step st of loop() after ty_poll blocked for w milliseconds
Goto(st, w) ==
    /\ eof_clock' = IF eof_clock < 0
                    THEN (IF Made(st.calls, "read", "eof") THEN 0 ELSE eof_clock)
                    ELSE IF eof_clock + w > MaxClock THEN MaxClock
                    ELSE eof_clock + w
    /\ pc' = st.pc
    /\ set' = st.set
    /\ timeout' = st.timeout
    /\ result' = st.result
    /\ calls' = st.calls
    /\ UNCHANGED <<reconnect, timeout_eof, directions>>
    /\ UNCHANGED <<monVars, setVars, optVars>>

LoopRestart ==
    /\ pc = "restart"
    /\ \E r \in SetAttributesOutcomes(has_serial) :
          Goto(loopRestart(set, timeout, directions, r), 0)
    /\ UNCHANGED has_serial

LoopEmpty ==
    /\ pc = "poll" /\ set = {}
    /\ Goto(loopEmpty(set, timeout), 0)
    /\ UNCHANGED has_serial

LoopPollError ==
    /\ pc = "poll" /\ set # {}
    /\ \E r \in Errors : \E w \in ReadyWaits(timeout) :
          Goto(loopPollError(set, timeout, r), w)
    /\ UNCHANGED has_serial

LoopTimeout ==
    /\ pc = "poll" /\ set # {} /\ timeout >= 0
    /\ Goto(loopTimeout(set, timeout), timeout)
    /\ UNCHANGED has_serial

LoopMonitor ==
    /\ pc = "poll" /\ set # {} /\ 1 \in set
    /\ \E r \in {"ok"} \cup Errors : \E has \in BOOLEAN :
       \E w \in ReadyWaits(timeout) :
          /\ Goto(loopMonitor(set, timeout, reconnect, r, has), w)
          /\ has_serial' = has

LoopWaitFor ==
    /\ pc = "wait_for"
    /\ \E o \in WaitForOutcomes(WaitForArgument) :
          /\ Goto(loopWaitFor(set, timeout, o.ret), 0)
          /\ has_serial' = o.has

LoopSerial ==
    /\ pc = "poll" /\ set # {} /\ 2 \in set
    /\ \E rd \in {"data"} \cup Errors : \E wr \in {"ok", "fail"} :
       \E w \in ReadyWaits(timeout) :
          Goto(loopSerial(set, timeout, reconnect, rd, wr), w)
    /\ UNCHANGED has_serial

LoopInput ==
    /\ pc = "poll" /\ set # {} /\ 3 \in set
    /\ \E rd \in {"data", "eof", "fail"} : \E wr \in {"ok"} \cup Errors :
       \E w \in ReadyWaits(timeout) :
          Goto(loopInput(set, timeout, reconnect, timeout_eof, rd, wr), w)
    /\ UNCHANGED has_serial

LoopInit ==
    /\ MonitorInit
    /\ pc = "restart"
    /\ set = {}
    /\ timeout \in {-1, 0, ERROR_IO_TIMEOUT}   \* int timeout; is not initialised
    /\ result = "none"
    /\ reconnect \in BOOLEAN
    /\ timeout_eof \in {-1, 0, 200}
    /\ directions \in {DIRECTION_INPUT, DIRECTION_OUTPUT,
                       DIRECTION_INPUT + DIRECTION_OUTPUT}
    /\ has_serial \in BOOLEAN
    /\ calls = <<>>
    /\ eof_clock = -1
    /\ SettingsIdle /\ OptIdle

LoopNext == LoopRestart \/ LoopEmpty \/ LoopPollError \/ LoopTimeout
            \/ LoopMonitor \/ LoopWaitFor \/ LoopSerial \/ LoopInput

LoopSpec == LoopInit /\ [][LoopNext]_vars

(***************************************************************************)
(* Monitor settings: loadSettings(), setMaxTasks(), setSerialByDefault().  *)
(* Stored values are QVariants: nothing, an unsigned number, a boolean or  *)
(* a text (a sequence of characters), as read back from a settings file.   *)
(***************************************************************************)
UInt(n) == [kind |-> "uint", value |-> n]
Bool(b) == [kind |-> "bool", value |-> b]
Text(t) == [kind |-> "string", text |-> t]

Platforms == {"windows10", "windows", "other"}

DigitValue(c) ==
    CASE c = "0" -> 0 [] c = "1" -> 1 [] c = "2" -> 2 [] c = "3" -> 3
      [] c = "4" -> 4 [] c = "5" -> 5 [] c = "6" -> 6 [] c = "7" -> 7
      [] c = "8" -> 8 [] c = "9" -> 9 [] OTHER -> -1

RECURSIVE DecimalValue(_)
\* the number written by the digits t
DecimalValue(t) ==
    IF t = <<>> THEN 0
    ELSE 10 * DecimalValue(SubSeq(t, 1, Len(t) - 1)) + DigitValue(t[Len(t)])

\* QVariant::toUInt(): 0 unless the value converts to an unsigned number
toUInt(v) ==
    CASE v.kind = "uint" -> v.value
      [] v.kind = "bool" -> (IF v.value THEN 1 ELSE 0)
      [] v.kind = "string" ->
            (IF v.text # <<>> /\ \A k \in 1..Len(v.text) : DigitValue(v.text[k]) >= 0
             THEN DecimalValue(v.text) ELSE 0)
      [] OTHER -> 0

\* QVariant::toBool()
toBool(v) ==
    CASE v.kind = "bool" -> v.value
      [] v.kind = "uint" -> v.value # 0
      [] v.kind = "string" ->
            v.text \notin {<<>>, <<"0">>, <<"f", "a", "l", "s", "e">>}
      [] OTHER -> FALSE

\* Database::get(key, default_value)
get(stored, default_value) == IF stored = Invalid THEN default_value ELSE stored

\* ty_pool_set_max_threads(pool, max): the new maximum of the pool
ty_pool_set_max_threads(max) == max

\* the argument loadSettings() gives to ty_pool_set_max_threads
loadSettings(stored, pf) ==
    LET max_tasks == toUInt(get(stored, Invalid))
    IN IF max_tasks = 0
       THEN IF pf = "windows10" THEN 2
            ELSE IF pf = "windows" THEN 1
            ELSE 4
       ELSE max_tasks

LoadSettings ==
    /\ pool_max' = ty_pool_set_max_threads(loadSettings(db_maxTasks, platform))
    /\ default_serial_' = toBool(get(db_serialByDefault, Bool(TRUE)))
    /\ UNCHANGED <<db_maxTasks, db_serialByDefault, platform>>
    /\ UNCHANGED <<monVars, loopVars, optVars>>

SetMaxTasks ==
    \E max_tasks \in 0..MaxTasks :
        /\ pool_max' = ty_pool_set_max_threads(max_tasks)
        /\ db_maxTasks' = UInt(max_tasks)
        /\ UNCHANGED <<db_serialByDefault, default_serial_, platform>>
        /\ UNCHANGED <<monVars, loopVars, optVars>>

SetSerialByDefault ==
    \E default_serial \in BOOLEAN :
        /\ default_serial_' = default_serial
        /\ db_serialByDefault' = Bool(default_serial)
        /\ UNCHANGED <<pool_max, db_maxTasks, platform>>
        /\ UNCHANGED <<monVars, loopVars, optVars>>

\* values a settings file can hold under "maxTasks"
StoredMaxTasks ==
    {Invalid} \cup {UInt(n) : n \in 0..MaxTasks}
        \cup {Text(t) : t \in {<<>>, <<"0">>, <<"2">>, <<"1", "0">>, <<"a", "b", "c">>}}

\* the Monitor constructor: ty_pool_new(), then loadSettings()
SettingsInit ==
    /\ MonitorInit /\ LoopIdle /\ OptIdle
    /\ platform \in Platforms
    /\ db_maxTasks \in StoredMaxTasks
    /\ db_serialByDefault \in {Invalid, Bool(TRUE), Bool(FALSE), Text(<<"0">>)}
    /\ pool_max = ty_pool_set_max_threads(loadSettings(db_maxTasks, platform))
    /\ default_serial_ = toBool(get(db_serialByDefault, Bool(TRUE)))

SettingsNext == LoadSettings \/ SetMaxTasks \/ SetSerialByDefault

SettingsSpec == SettingsInit /\ [][SettingsNext]_vars

(***************************************************************************)
(* The command line of tyc monitor: the option loop of monitor().          *)
(* An optarg is a C string, modelled as the sequence of its characters.    *)
(* device_flags has one field per mask: csize (TYD_SERIAL_CSIZE_MASK),     *)
(* flow (TYD_SERIAL_FLOW_MASK), parity (TYD_SERIAL_PARITY_MASK) and nohup  *)
(* (TYD_SERIAL_NOHUP_CLOSE); "0" is a field with no bit set.               *)
(***************************************************************************)
DatabitsArgs == {<<"5">>, <<"6">>, <<"7">>, <<"8">>, <<"9">>, <<"x">>}
FlowArgs ==
    {<<"x">>, <<"x", "o", "n", "x", "o", "f", "f">>, <<"h">>,
     <<"r", "t", "s", "c", "t", "s">>, <<"n">>, <<"n", "o", "n", "e">>,
     <<"o", "f", "f">>}
ParityArgs ==
    {<<"o">>, <<"o", "d", "d">>, <<"e">>, <<"e", "v", "e", "n">>, <<"n">>,
     <<"n", "o", "n", "e">>, <<"x">>}
DirectionArgs ==
    {<<"i", "n", "p", "u", "t">>, <<"o", "u", "t", "p", "u", "t">>,
     <<"b", "o", "t", "h">>, <<"i", "n">>}
BaudArgs == {<<"9", "6", "0", "0">>, <<"a", "b", "c">>}
TimeoutArgs == {<<"-", "1">>, <<"-", "5">>, <<"0">>, <<"5", "0">>, <<"a", "b", "c">>}

RECURSIVE LeadingDigits(_)
\* the longest prefix of t made of decimal digits
LeadingDigits(t) ==
    IF t = <<>> \/ DigitValue(Head(t)) < 0 THEN <<>>
    ELSE <<Head(t)>> \o LeadingDigits(Tail(t))

\* strtol(optarg, NULL, 10) and strtoul(optarg, NULL, 10); errno stays 0, it
\* is set only for a value out of the range of long
strtol(t) ==
    IF t # <<>> /\ Head(t) = "-"
    THEN 0 - DecimalValue(LeadingDigits(Tail(t)))
    ELSE DecimalValue(LeadingDigits(t))

\* the static variables the option loop works on
Statics ==
    [terminal_flags |-> terminal_flags, device_rate |-> device_rate,
     device_flags |-> device_flags, directions |-> directions,
     reconnect |-> reconnect, timeout_eof |-> timeout_eof]

\* what one case of the switch leaves: the statics, and "next" or the
\* value monitor() returns
Case(v, ret) == [v |-> v, ret |-> ret]

caseSilent(v) ==
    Case([v EXCEPT !.terminal_flags = @ \cup {"TY_TERMINAL_SILENT"}], "next")

caseRaw(v) ==
    Case([v EXCEPT !.terminal_flags = @ \cup {"TY_TERMINAL_RAW"}], "next")

caseDirection(v, optarg) ==
    IF optarg = <<"i", "n", "p", "u", "t">>
    THEN Case([v EXCEPT !.directions = DIRECTION_INPUT], "next")
    ELSE IF optarg = <<"o", "u", "t", "p", "u", "t">>
    THEN Case([v EXCEPT !.directions = DIRECTION_OUTPUT], "next")
    ELSE IF optarg = <<"b", "o", "t", "h">>
    THEN Case([v EXCEPT !.directions = DIRECTION_INPUT + DIRECTION_OUTPUT], "next")
    ELSE Case(v, "TY_ERROR_PARAM")

caseBaud(v, optarg) ==
    Case([v EXCEPT !.device_rate = strtol(optarg)], "next")

caseFlow(v, optarg) ==
    LET w == [v EXCEPT !.device_flags.flow = "0"]
    IN IF optarg \in {<<"x">>, <<"x", "o", "n", "x", "o", "f", "f">>}
       THEN Case([w EXCEPT !.device_flags.flow = "XONXOFF"], "next")
       ELSE IF optarg \in {<<"h">>, <<"r", "t", "s", "c", "t", "s">>}
       THEN Case([w EXCEPT !.device_flags.flow = "RTSCTS"], "next")
       ELSE IF optarg # <<"n">> /\ optarg = <<"n", "o", "n", "e">>
       THEN Case(w, "TY_ERROR_PARAM")
       ELSE Case(w, "next")

\* case 'd' has no break: unless it returns, case 'f' runs on the same optarg
caseDatabits(v, optarg) ==
    LET w == [v EXCEPT !.device_flags.csize = "0"]
    IN IF optarg = <<"5">>
       THEN caseFlow([w EXCEPT !.device_flags.csize = "5BITS"], optarg)
       ELSE IF optarg = <<"6">>
       THEN caseFlow([w EXCEPT !.device_flags.csize = "6BITS"], optarg)
       ELSE IF optarg = <<"7">>
       THEN caseFlow([w EXCEPT !.device_flags.csize = "7BITS"], optarg)
       ELSE IF optarg # <<"8">>
       THEN Case(w, "TY_ERROR_PARAM")
       ELSE caseFlow(w, optarg)

caseNoreset(v) == Case([v EXCEPT !.device_flags.nohup = TRUE], "next")

caseParity(v, optarg) ==
    LET w == [v EXCEPT !.device_flags.parity = "0"]
    IN IF optarg \in {<<"o">>, <<"o", "d", "d">>}
       THEN Case([w EXCEPT !.device_flags.parity = "ODD"], "next")
       ELSE IF optarg \in {<<"e">>, <<"e", "v", "e", "n">>}
       THEN Case([w EXCEPT !.device_flags.parity = "EVEN"], "next")
       ELSE IF optarg # <<"n">> /\ optarg # <<"n", "o", "n", "e">>
       THEN Case(w, "TY_ERROR_PARAM")
       ELSE Case(w, "next")

caseReconnect(v) == Case([v EXCEPT !.reconnect = TRUE], "next")

caseTimeoutEof(v, optarg) ==
    LET n == strtol(optarg)
    IN Case([v EXCEPT !.timeout_eof = IF n < 0 THEN -1 ELSE n], "next")

\* default: r is the result of parse_main_option
caseDefault(v, r) ==
    IF r = "positive" THEN Case(v, "next")
    ELSE IF r = "zero" THEN Case(v, "0")
    ELSE Case(v, r)

\* one turn of the while loop: the case c = [v, ret] of option o has run
Parsed(o, optarg, c) ==
    /\ opt_count' = opt_count + 1
    /\ opt_last' = [opt |-> o, optarg |-> optarg]
    /\ terminal_flags' = c.v.terminal_flags
    /\ device_rate' = c.v.device_rate
    /\ device_flags' = c.v.device_flags
    /\ directions' = c.v.directions
    /\ reconnect' = c.v.reconnect
    /\ timeout_eof' = c.v.timeout_eof
    /\ pc' = IF c.ret = "next" THEN "options" ELSE "done"
    /\ result' = IF c.ret = "next" THEN "none" ELSE c.ret
    /\ UNCHANGED <<set, timeout, has_serial, calls, eof_clock>>
    /\ UNCHANGED <<monVars, setVars>>

\* getopt_long has another option to give
More == pc = "options" /\ opt_count < MaxOpts

OptSilent ==
    /\ More
    /\ Parsed("silent", <<>>, caseSilent(Statics))

OptRaw ==
    /\ More
    /\ Parsed("raw", <<>>, caseRaw(Statics))

OptDirection ==
    /\ More
    /\ \E optarg \in DirectionArgs :
          Parsed("direction", optarg, caseDirection(Statics, optarg))

OptBaud ==
    /\ More
    /\ \E optarg \in BaudArgs :
          Parsed("baud", optarg, caseBaud(Statics, optarg))

OptDatabits ==
    /\ More
    /\ \E optarg \in DatabitsArgs :
          Parsed("databits", optarg, caseDatabits(Statics, optarg))

OptFlow ==
    /\ More
    /\ \E optarg \in FlowArgs :
          Parsed("flow", optarg, caseFlow(Statics, optarg))

OptNoreset ==
    /\ More
    /\ Parsed("noreset", <<>>, caseNoreset(Statics))

OptParity ==
    /\ More
    /\ \E optarg \in ParityArgs :
          Parsed("parity", optarg, caseParity(Statics, optarg))

OptReconnect ==
    /\ More
    /\ Parsed("reconnect", <<>>, caseReconnect(Statics))

OptTimeoutEof ==
    /\ More
    /\ \E optarg \in TimeoutArgs :
          Parsed("timeout-eof", optarg, caseTimeoutEof(Statics, optarg))

OptDefault ==
    /\ More
    /\ \E r \in {"positive", "zero", "TY_ERROR_PARAM"} :
          Parsed("main", <<>>, caseDefault(Statics, r))

\* after the last option: positional arguments are refused; on a terminal
\* (tty) the Windows build silences a raw terminal; then the terminal, the
\* output and the board are set up (r is the first failure, or "ok"), and
\* loop() is entered
OptEnd ==
    /\ pc = "options"
    /\ \E positional \in BOOLEAN, tty \in BOOLEAN, r \in {"ok"} \cup Errors :
          /\ pc' = IF ~positional /\ r = "ok" THEN "restart" ELSE "done"
          /\ result' = IF positional THEN "TY_ERROR_PARAM"
                       ELSE IF r = "ok" THEN "none" ELSE r
          /\ terminal_flags' =
                IF /\ ~positional /\ tty /\ platform # "other"
                   /\ "TY_TERMINAL_RAW" \in terminal_flags
                THEN terminal_flags \cup {"TY_TERMINAL_SILENT"}
                ELSE terminal_flags
    /\ opt_last' = [opt |-> "end", optarg |-> <<>>]
    /\ UNCHANGED <<device_rate, device_flags, opt_count>>
    /\ UNCHANGED <<set, timeout, reconnect, timeout_eof, directions,
                   has_serial, calls, eof_clock>>
    /\ UNCHANGED <<monVars, setVars>>

\* monitor() is entered with the statics at their initial values
OptInit ==
    /\ MonitorInit /\ OptIdle
    /\ pool_max = 4
    /\ db_maxTasks = Invalid
    /\ db_serialByDefault = Invalid
    /\ default_serial_ = TRUE
    /\ platform \in Platforms
    /\ pc = "options"
    /\ set = {}
    /\ timeout = -1
    /\ result = "none"
    /\ reconnect = FALSE
    /\ timeout_eof = 200
    /\ directions = DIRECTION_INPUT + DIRECTION_OUTPUT
    /\ has_serial = TRUE
    /\ calls = <<>>
    /\ eof_clock = -1

OptNext ==
    \/ OptSilent \/ OptRaw \/ OptDirection \/ OptBaud \/ OptDatabits
    \/ OptFlow \/ OptNoreset \/ OptParity \/ OptReconnect \/ OptTimeoutEof
    \/ OptDefault \/ OptEnd

OptSpec == OptInit /\ [][OptNext]_vars

(***************************************************************************)
(* Properties of the Monitor, checked under Spec.                          *)
(***************************************************************************)
Range(s) == {s[i] : i \in 1..Len(s)}
Index(s, o) == CHOOSE i \in 1..Len(s) : s[i] = o
InCollection(board) == \E i \in 1..Len(boards_) : objBoard[boards_[i]] = board
Kinds(notes) == [k \in 1..Len(notes) |-> notes[k].kind]
EventStep == last'.op = "event"

\* what the Monitor holds and has set up
MonitorState == <<started_, monitor_, registered, connected, notifier_enabled,
                  serial_running, backend_started, boards_, objBoard>>

\* C1: the collection never holds two Board objects for the same backend
\* board (ty_board), whatever events the backend delivers.
C1_NoTwoBoardsOfOneIdentity ==
    \A i, j \in 1..Len(boards_) :
        i # j => objBoard[boards_[i]] # objBoard[boards_[j]]

\* C2: while the Monitor is stopped the collection is empty, and no step
\* other than stop() itself delivers a notification to observers.
C2_SilentWhileStopped ==
    ~started_ => /\ boards_ = <<>>
                 /\ (last.op # "stop" => emitted = <<>>)

\* C3: a start() that returned false left nothing running: the backend is
\* not started, the notifier is disabled, the serial thread is not running
\* and the Monitor is not started.
C3_FailedStartLeavesNothing ==
    (last.op = "start" /\ last.ret = FALSE) =>
        /\ ~started_
        /\ ~backend_started
        /\ ~notifier_enabled
        /\ ~serial_running

\* C4: start() on a started Monitor returns true and changes nothing, stop()
\* on a stopped Monitor changes nothing, and neither notifies observers.
C4_StartStopIdempotent ==
    [][ /\ (started_ /\ last'.op = "start") =>
              (last'.ret = TRUE /\ UNCHANGED MonitorState /\ emitted' = <<>>)
        /\ (~started_ /\ last'.op = "stop") =>
              (UNCHANGED MonitorState /\ emitted' = <<>>) ]_vars

C4_Witness ==
    /\ last.op = "start" /\ last.event = "already_started"
    /\ started_ /\ boards_ # <<>>

\* C5: stop() on a started Monitor empties the collection, the row of every
\* board it held lies in a row removal it notified, the backend monitor is
\* stopped and the notifier disabled.
C5_StopDrainsAndDetaches ==
    [][ (started_ /\ last'.op = "stop") =>
            /\ boards_' = <<>>
            /\ \A i \in 1..Len(boards_) : \E k \in 1..Len(emitted') :
                  /\ emitted'[k].kind = "rowsRemoved"
                  /\ emitted'[k].a <= i - 1 /\ i - 1 <= emitted'[k].b
            /\ ~started_' /\ ~backend_started' /\ ~notifier_enabled' ]_vars

\* a stop() that drained two boards has returned
C5_Witness ==
    /\ last.op = "stop" /\ ~started_ /\ boards_ = <<>>
    /\ Len(objBoard) >= 2
    /\ \E k \in 1..Len(emitted) : emitted[k].kind = "rowsRemoved" /\ emitted[k].b >= 2

\* C6: an ADDED event appends the new Board at index = previous size; boards
\* that stay in the collection keep their relative order; a board's index
\* changes only when a board before it was removed.
C6_AppendOnlyUntilRemoval ==
    [][ /\ (EventStep /\ last'.event = "ADDED") =>
              /\ boards_' = Append(boards_, Len(objBoard) + 1)
              /\ RowsInserted(Len(boards_), Len(boards_)) \in Range(emitted')
        /\ \A o1, o2 \in Range(boards_) \cap Range(boards_') :
              Index(boards_, o1) < Index(boards_, o2)
                  => Index(boards_', o1) < Index(boards_', o2)
        /\ \A o \in Range(boards_) \cap Range(boards_') :
              Index(boards_', o) # Index(boards_, o) =>
                  \E q \in Range(boards_) \ Range(boards_') :
                      Index(boards_, q) < Index(boards_, o) ]_vars

\* an ADDED event was handled with a board already in the collection
C6_Witness ==
    /\ last.op = "event" /\ last.event = "ADDED"
    /\ Len(boards_) >= 2
    /\ boards_[Len(boards_)] = Len(objBoard)

\* C7: a CHANGED or DISAPPEARED event for a board in the collection leaves
\* the collection as it was, object for object, makes no new Board, and the
\* Board that was there is the one refreshed (it reports changed, not
\* dropped).
C7_ChangedKeepsObject ==
    [][ (EventStep /\ last'.event \in {"CHANGED", "DISAPPEARED"}
            /\ InCollection(last'.board)) =>
            /\ boards_' = boards_
            /\ objBoard' = objBoard
            /\ \E i \in 1..Len(boards_) :
                  /\ objBoard[boards_[i]] = last'.board
                  /\ BoardChanged(boards_[i]) \in Range(emitted')
            /\ \A k \in 1..Len(emitted') :
                  emitted'[k].kind \notin {"dropped", "rowsRemoved",
                                           "rowsInserted", "boardAdded"} ]_vars

\* a DISAPPEARED event was handled for the second board of the collection
C7_Witness ==
    /\ last.op = "event" /\ last.event = "DISAPPEARED"
    /\ Len(boards_) >= 2
    /\ BoardChanged(boards_[2]) \in Range(emitted)

\* C8: a DROPPED event for a board in the collection makes a Board of that
\* identity report dropped, and removes exactly that Board: its row is
\* notified as removed and every other Board stays, in the same order.
C8_DroppedRemovesThatBoard ==
    [][ (EventStep /\ last'.event = "DROPPED" /\ InCollection(last'.board)) =>
            \E i \in 1..Len(boards_) :
                /\ objBoard[boards_[i]] = last'.board
                /\ BoardDropped(boards_[i]) \in Range(emitted')
                /\ RowsRemoved(i - 1, i - 1) \in Range(emitted')
                /\ boards_' = RemoveAt(boards_, i) ]_vars

\* the second board of the collection was dropped, the first stays
C8_Witness ==
    /\ last.op = "event" /\ last.event = "DROPPED"
    /\ Len(boards_) >= 1
    /\ RowsRemoved(1, 1) \in Range(emitted)
    /\ \E k \in 1..Len(emitted) : emitted[k].kind = "dropped"

\* the notifications one event owes to observers, in order
ExpectedKinds(event, present) ==
    CASE event = "ADDED" -> <<"rowsInserted", "boardAdded">>
      [] event \in {"CHANGED", "DISAPPEARED"} ->
            IF present THEN <<"changed", "dataChanged">> ELSE <<>>
      [] event = "DROPPED" ->
            IF present THEN <<"dropped", "rowsRemoved">> ELSE <<>>

\* C9: events are handled one at a time in the order the backend applied
\* them: a step that handles an event handles the oldest pending one, whole
\* (the notifications it owes are all delivered in that step, for a Board of
\* that identity), and no other step reorders or drops pending events.
C9_EventsHandledInOrder ==
    [][ /\ EventStep =>
              /\ pending # <<>>
              /\ pending' = Tail(pending)
              /\ last'.board = Head(pending).board
              /\ last'.event = Head(pending).event
              /\ bstate'[last'.board] = StateAfter(last'.event)
              /\ Kinds(emitted') =
                    ExpectedKinds(last'.event, InCollection(last'.board))
              /\ \A k \in 1..Len(emitted') :
                    emitted'[k].kind \in {"boardAdded", "changed", "dropped"}
                        => objBoard'[emitted'[k].a] = last'.board
        /\ ~EventStep =>
              /\ \/ pending' = pending
                 \/ \E e \in [board : Idents, event : Events] :
                        pending' = Append(pending, e)
              /\ bstate' = bstate ]_vars

\* a DROPPED event was handled while a later event was still pending
C9_Witness ==
    /\ last.op = "event" /\ last.event = "DROPPED"
    /\ pending # <<>>
    /\ Kinds(emitted) = <<"dropped", "rowsRemoved">>

\* C21: the Board made for an ADDED event is given scoped stores, keyed by
\* the id of its board, if and only if the board has the UNIQUE capability
\* when the event is handled; no other step gives a Board scoped stores or
\* takes them away.
C21_ScopedStoresIffUnique ==
    [][ /\ (EventStep /\ last'.event = "ADDED") =>
              LET o == Len(objBoard') IN
                /\ o = Len(objBoard) + 1 /\ Len(objDb') = o
                /\ objBoard'[o] = last'.board
                /\ "UNIQUE" \in capabilities(last'.board) => objDb'[o] = last'.board
                /\ "UNIQUE" \notin capabilities(last'.board) => objDb'[o] = 0
        /\ \A o \in 1..Len(objDb) : objDb'[o] = objDb[o] ]_vars

\* the collection holds a Board with scoped stores and one without
C21_Witness ==
    /\ last.op = "event" /\ last.event = "ADDED"
    /\ \E i, j \in 1..Len(boards_) :
          /\ objDb[boards_[i]] = objBoard[boards_[i]]
          /\ objDb[boards_[j]] = 0

\* C23: every position the Monitor hands to its observers is in bounds: a
\* row-removal names rows within [0, size - 1] of the collection it is
\* removed from, a data-changed names a row below the size, also for the
\* signals of a Board that is no longer in the collection.
C23_PositionsInBounds ==
    [][ \A k \in 1..Len(emitted') :
          /\ emitted'[k].kind = "rowsRemoved" =>
                /\ 0 <= emitted'[k].a /\ emitted'[k].a <= emitted'[k].b
                /\ emitted'[k].b <= Len(boards_) - 1
          /\ emitted'[k].kind = "dataChanged" =>
                /\ 0 <= emitted'[k].a
                /\ emitted'[k].a <= Len(boards_') - 1 ]_vars

C10_ReadErrorEndsSession ==
    [][ /\ (~reconnect /\ Made(calls', "serial_read", "TY_ERROR_IO")) =>
              /\ pc' = "done"
              /\ result' = "TY_ERROR_IO"
              /\ calls'[Len(calls')] = Call("serial_read", "TY_ERROR_IO")
        /\ pc = "done" => UNCHANGED loopVars ]_vars

C10_Witness ==
    /\ ~reconnect
    /\ pc = "done" /\ result = "TY_ERROR_IO"
    /\ calls = <<Call("ty_poll", "2"), Call("serial_read", "TY_ERROR_IO")>>

\* C11: with reconnect = true, once the refresh showed the serial capability
\* gone, tyb_board_wait_for returns successfully only when the capability is
\* present again, and the loop is then at the restart point.
C11_WaitsUntilSerialIsBack ==
    (reconnect /\ Made(calls, "wait_for", "ok")) =>
        (pc = "restart" /\ has_serial)

\* C12: with reconnect = true, a serial read or serial write that fails with
\* an I/O error does not end the session: tags 2 and 3 leave the wait set,
\* nothing else does (tag 1 stays), and the poll timeout becomes 5000 ms.
C12_IoErrorUnderReconnect ==
    [][ (reconnect /\ (\/ Made(calls', "serial_read", "TY_ERROR_IO")
                       \/ Made(calls', "serial_write", "TY_ERROR_IO"))) =>
            /\ pc' = "poll" /\ result' = "none"
            /\ set' = set \ {2, 3}
            /\ (1 \in set => 1 \in set')
            /\ timeout' = 5000 ]_vars

\* a serial write failed with an I/O error under the reconnect policy
C12_Witness ==
    /\ reconnect /\ pc = "poll"
    /\ Made(calls, "serial_write", "TY_ERROR_IO")
    /\ set = {1} /\ timeout = 5000

\* C13: a poll timeout armed as reconnect backoff leads to the restart point,
\* a poll timeout armed as the EOF grace period ends the session with 0.
C13_TimeoutOutcome ==
    Made(calls, "ty_poll", "0") =>
        IF timeout = ERROR_IO_TIMEOUT
        THEN pc = "restart"
        ELSE pc = "done" /\ result = "0"

\* C14: at the end of input with a non-negative grace period, tag 3 and only
\* tag 3 leaves the wait set, and the poll timeout becomes the grace period.
C14_EofRemovesOnlyInput ==
    [][ (timeout_eof >= 0 /\ Made(calls', "read", "eof")) =>
            /\ set' = set \ {3}
            /\ timeout' = timeout_eof ]_vars

\* C15 (as claimed): at the end of input with a negative grace value the
\* session has ended with result 0.
C15_NegativeGraceExits ==
    (timeout_eof < 0 /\ Made(calls, "read", "eof")) =>
        (pc = "done" /\ result = "0")

\* C15 (amended): at the end of input with a negative grace value the end of
\* input is ignored: the wait set and the poll timeout stay as they were, the
\* session does not end and goes on to poll again.
C15_NegativeGraceIgnoresEof ==
    [][ (timeout_eof < 0 /\ Made(calls', "read", "eof")) =>
            /\ pc' = "poll" /\ result' = "none"
            /\ set' = set /\ 3 \in set'
            /\ timeout' = timeout ]_vars

C15_Witness ==
    /\ timeout_eof < 0 /\ Made(calls, "read", "eof")
    /\ pc = "poll" /\ 3 \in set

\* C16: after the end of input with grace g >= 0 the session is over once
\* more than g milliseconds have passed, whatever the device sent meanwhile.
C16_EndsWithinGrace ==
    (timeout_eof >= 0 /\ eof_clock >= 0 /\ pc # "done") =>
        eof_clock <= timeout_eof

C22_LostSerialEndsSession ==
    [][ /\ (~reconnect /\ Made(calls', "monitor_refresh", "ok") /\ ~has_serial') =>
              /\ pc' = "done"
              /\ result' = "0"
              /\ calls'[Len(calls')] = Call("monitor_refresh", "ok")
        /\ pc = "done" => (pc' = "done" /\ calls' = calls) ]_vars

\* the refresh showed the capability gone and the session ended
C22_Witness ==
    /\ ~reconnect /\ ~has_serial
    /\ pc = "done" /\ result = "0"
    /\ calls = <<Call("ty_poll", "1"), Call("monitor_refresh", "ok")>>

\* C25: ty_poll is never called on an empty wait set: an iteration that
\* starts with an empty set ends the session with result 0 without any call
\* and without waiting, whatever timeout is armed.
C25_EmptySetEndsSession ==
    [][ /\ (\E r \in {"0", "1", "2", "3"} \cup Errors : Made(calls', "ty_poll", r))
              => set # {}
        /\ (pc = "poll" /\ set = {}) =>
              /\ pc' = "done"
              /\ result' = "0"
              /\ calls' = <<>>
              /\ eof_clock' = eof_clock ]_vars

\* output only: the end of input emptied the set and the session ended at
\* once, the grace period of 200 ms not having passed
C25_Witness ==
    /\ directions = DIRECTION_OUTPUT /\ timeout_eof > 0
    /\ pc = "done" /\ result = "0" /\ calls = <<>>
    /\ set = {} /\ timeout = timeout_eof /\ eof_clock = 0

\* C26: a pass through restart applies the serial attributes first, a
\* failure ending the session with that error and no poll; otherwise the
\* wait set becomes tag 1, tag 2 if the direction includes input and tag 3
\* if it includes output, and the timeout becomes -1.  So while polling, a
\* timeout is armed only by an end of input with a grace period, or by an
\* I/O error under reconnect, since the last restart.
C26_RestartResetsLoop ==
    [][ /\ \A r \in Errors :
              Made(calls', "serial_set_attributes", r) =>
                  (pc' = "done" /\ result' = r /\ Len(calls') = 1)
        /\ Made(calls', "serial_set_attributes", "ok") =>
              /\ pc' = "poll" /\ Len(calls') = 1
              /\ set' = {1} \cup (IF directions \in {1, 3} THEN {2} ELSE {})
                            \cup (IF directions \in {2, 3} THEN {3} ELSE {})
              /\ timeout' = -1
        /\ (pc' = "poll" /\ timeout' # -1) =>
              \/ timeout_eof >= 0 /\ timeout' = timeout_eof
                    /\ 1 \notin set' /\ 3 \notin set'
              \/ reconnect /\ timeout' = ERROR_IO_TIMEOUT
                    /\ 2 \notin set' /\ 3 \notin set'
        /\ Made(calls', "ty_poll", "0") => timeout >= 0 ]_vars

\* restart was passed in both directions
C26_Witness ==
    /\ pc = "poll" /\ calls = <<Call("serial_set_attributes", "ok")>>
    /\ set = {1, 2, 3} /\ timeout = -1

(***************************************************************************)
(* Properties of the Monitor settings, checked under SettingsSpec.         *)
(***************************************************************************)
\* C18: the maximum worker count of the pool is at least 1 in every state
\* reached by construction, loadSettings() and setMaxTasks(n).
C18_PoolMaxAtLeastOne == pool_max >= 1

(***************************************************************************)
(* Properties of the command line, checked under OptSpec.                  *)
(***************************************************************************)
\* C19: handling --databits changes only the character size of the device
\* flags: the flow-control mode chosen before is still in effect after it.
C19_DatabitsKeepsFlow ==
    [][ (opt_count' = opt_count + 1 /\ opt_last'.opt = "databits") =>
            /\ device_flags'.flow = device_flags.flow
            /\ device_flags'.parity = device_flags.parity
            /\ device_flags'.nohup = device_flags.nohup ]_vars

\* C20: --flow accepts exactly x / xonxoff, h / rtscts and n / none, and
\* selects that mode; any other value makes monitor() return a parameter
\* error, no session having been started.
C20_FlowValues ==
    opt_last.opt = "flow" =>
        IF opt_last.optarg \in {<<"x">>, <<"x", "o", "n", "x", "o", "f", "f">>}
        THEN pc = "options" /\ device_flags.flow = "XONXOFF"
        ELSE IF opt_last.optarg \in {<<"h">>, <<"r", "t", "s", "c", "t", "s">>}
        THEN pc = "options" /\ device_flags.flow = "RTSCTS"
        ELSE IF opt_last.optarg \in {<<"n">>, <<"n", "o", "n", "e">>}
        THEN pc = "options" /\ device_flags.flow = "0"
        ELSE pc = "done" /\ result = "TY_ERROR_PARAM" /\ calls = <<>>

====
